---- MODULE Spec2Model ----
(***************************************************************************)
(* Model of app/static/sw.js, the service worker of The Spackler Index:    *)
(* the install / activate lifecycle of a cache generation, the fetch       *)
(* handler's three routing strategies and the message handler.             *)
(*                                                                         *)
(* Every deployment of sw.js is the same script with another CACHE_VERSION *)
(* (sw.js:4-7); generation g is the worker whose CACHE_VERSION is g.  Each *)
(* promise callback of a handler is one action: between two callbacks the  *)
(* event loop may run any other pending callback.                          *)
(***************************************************************************)
EXTENDS Integers, Sequences, FiniteSets, TLC

\* ------------------------------------------------------------------ bounds
\* Deployments of sw.js that are observed (generations 1..MaxGen).
MaxGen == 2
\* Contents the origin server may answer a URL with (bodies 1..MaxVer).
MaxVer == 2
\* Fetch events handled.
MaxOps == 2
\* Message events recorded while the message handler is observed.
MaxMsgs == 2

Gens == 1..MaxGen
Bodies == 1..MaxVer
OpIds == 1..MaxOps

\* --------------------------------------------------------------- constants
\* sw.js:6-7.  A store name is its prefix and its version token.
CACHE_VERSION(g) == g
CACHE_NAME(g) == [prefix |-> "spackler-", version |-> CACHE_VERSION(g)]

\* String.prototype.startsWith on a store name (sw.js:45).
startsWith(name, prefix) == name.prefix = prefix

\* A URL path is the sequence of its segments after the leading "/".
OFFLINE_URL == <<"static", "offline.html">>

\* sw.js:9-20
urlsToCache ==
  << <<"">>,
     <<"static", "index.html">>,
     <<"static", "offline.html">>,
     <<"manifest.json">>,
     <<"static", "manifest.json">>,
     <<"static", "images", "apple-touch-icon.png">>,
     <<"static", "images", "icon-192.png">>,
     <<"static", "images", "icon-512.png">>,
     <<"static", "images", "gopher.jpg">>,
     <<"static", "images", "spackler-logo.jpg">> >>

ManifestUrls == {urlsToCache[k] : k \in 1..Len(urlsToCache)}

\* requestUrl.pathname.startsWith('/api/') (sw.js:65)
IsApiPath(url) == Len(url) >= 2 /\ url[1] = "api"

\* ------------------------------------------------------------------ values
\* What a promise of a response settles to.
Undefined == [kind |-> "undefined"]
Null == [kind |-> "null"]
Pending == [kind |-> "pending"]
\* The response of the origin server for url while its content is body.
Response(url, body) == [kind |-> "response", url |-> url, body |-> body]
\* response.clone() (sw.js:75, 95): an equal, independently readable copy.
clone(response) == response

\* JavaScript truthiness of the operands of || at sw.js:82 and 102: a
\* response and a promise object are truthy, undefined and null are not.
Truthy(v) == v.kind \in {"response", "promise"}
\* The promise object fetchPromise of sw.js:92.
FetchPromise == [kind |-> "promise"]

\* --------------------------------------------------------- the store API
\* CacheStorage is the sequence of the existing stores in creation order,
\* each a name and its entries (a function from the URLs it holds).
NoEntries == [u \in {} |-> Undefined]

StoreNames(cs) == {cs[k].name : k \in 1..Len(cs)}

\* caches.keys(): the names in creation order.
keys(cs) == [k \in 1..Len(cs) |-> cs[k].name]

\* caches.open(name): creates the store when no store has that name.
open(cs, name) ==
  IF name \in StoreNames(cs) THEN cs
  ELSE Append(cs, [name |-> name, entries |-> NoEntries])

\* caches.delete(name)
delete(cs, name) == SelectSeq(cs, LAMBDA s : s.name # name)

\* The entries of the store called name (none when no such store exists).
EntriesOf(cs, name) ==
  IF name \in StoreNames(cs)
  THEN cs[CHOOSE k \in 1..Len(cs) : cs[k].name = name].entries
  ELSE NoEntries

\* caches.match(request) (sw.js:81, 82, 91, 102): no cacheName option is
\* given, so every store is searched, in creation order, and the first
\* entry found is the result; undefined when no store holds the URL.
match(cs, url) ==
  LET hits == {k \in 1..Len(cs) : url \in DOMAIN cs[k].entries}
  IN IF hits = {} THEN Undefined
     ELSE cs[CHOOSE k \in hits : \A j \in hits : k <= j].entries[url]

\* Mutant of put: the write is lost.
putLost(cs, name, url, response) == cs

\* Mutant of put: the write replaces every entry of the store.
putReplacingAll(cs, name, url, response) ==
  [k \in 1..Len(cs) |->
     IF cs[k].name = name
     THEN [cs[k] EXCEPT !.entries = (url :> response)]
     ELSE cs[k]]

\* cache.put(request, response) on the store called name.
put(cs, name, url, response) ==
  [k \in 1..Len(cs) |->
     IF cs[k].name = name
     THEN [cs[k] EXCEPT !.entries = (url :> response) @@ @]
     ELSE cs[k]]

\* Mutant of addAll: every response that arrived is stored, also when
\* another fetch failed.
addAllPartial(cs, name, urls, fetched) ==
  [k \in 1..Len(cs) |->
     IF cs[k].name = name
     THEN [cs[k] EXCEPT !.entries =
             [u \in {v \in urls : fetched[v] # Null} |-> fetched[u]] @@ @]
     ELSE cs[k]]

\* Mutant of addAll: the offline document is left out of the batch.
addAllWithoutOffline(cs, name, urls, fetched) ==
  IF \E u \in urls : fetched[u] = Null THEN cs
  ELSE [k \in 1..Len(cs) |->
          IF cs[k].name = name
          THEN [cs[k] EXCEPT !.entries =
                  [u \in urls \ {OFFLINE_URL} |-> fetched[u]] @@ @]
          ELSE cs[k]]

\* cache.addAll(urls) (sw.js:29) on the store called name, fetched[u] being
\* what the fetch of u settled with (null: it failed): every URL is fetched
\* first, and the responses are stored, all in one batch, only when every
\* fetch succeeded; else addAll rejects and stores nothing.
addAll(cs, name, urls, fetched) ==
  IF \E u \in urls : fetched[u] = Null THEN cs
  ELSE [k \in 1..Len(cs) |->
          IF cs[k].name = name
          THEN [cs[k] EXCEPT !.entries = [u \in urls |-> fetched[u]] @@ @]
          ELSE cs[k]]

\* ---------------------------------------------------------------- requests
Methods == {"GET", "POST"}
Modes == {"navigate", "no-cors"}
\* "/" is in the manifest, "/app.js" is not, "/api/data" is an API path.
RequestUrls == { <<"">>, <<"app.js">>, <<"api", "data">> }
Requests == [method : Methods, url : RequestUrls, mode : Modes]
NoRequest == [method |-> "", url |-> <<>>, mode |-> ""]

\* The open pages of the origin (one page stands for all of them).
Pages == {"p1"}

\* Stores that may exist before the first deployment that is observed: one
\* left by an older generation of this worker, one of another application
\* of the origin.  The origin starts with neither or with both.
LegacyStore ==
  [name |-> CACHE_NAME(0),
   entries |-> (<<"">> :> Response(<<"">>, 0))
               @@ (OFFLINE_URL :> Response(OFFLINE_URL, 0))]
ForeignStore ==
  [name |-> [prefix |-> "other-", version |-> 0],
   entries |-> (<<"app.js">> :> Response(<<"app.js">>, 0))]
InitialStorages == { <<>>, <<LegacyStore, ForeignStore>> }

\* ------------------------------------------------------------------- state
VARIABLES
  caches,           \* CacheStorage of the origin
  cand,             \* the generation deployed last (0: none yet)
  wstate,           \* its worker's state in the runtime
  ipc,              \* position of its install handler
  apc,              \* position of its activate handler
  pending,          \* store names whose caches.delete has not settled
  skipWaitingFlag,  \* the generations whose worker called skipWaiting()
  active,           \* the generation of the registration's active worker
  controlled,       \* the pages the registration controls
  discarded,        \* the generations whose install failed
  installNet,       \* the responses the last successful cache.addAll fetched
  received,         \* the message events recorded, oldest first
  ops               \* the fetch events: one record per event

vars == <<caches, cand, wstate, ipc, apc, pending, skipWaitingFlag,
          active, controlled, discarded, installNet, received, ops>>

lifecycle == <<cand, wstate, ipc, apc, pending, skipWaitingFlag, active,
               discarded, installNet, received>>

IdleOp ==
  [g |-> 0, req |-> NoRequest, pc |-> "idle", cached |-> Pending,
   net |-> Pending, out |-> Pending, awaits |-> "none", log |-> {},
   handle |-> "none", landed |-> FALSE]

Init ==
  /\ caches \in InitialStorages
  /\ cand = 0
  /\ wstate = "none"
  /\ ipc = "idle"
  /\ apc = "idle"
  /\ pending = {}
  /\ skipWaitingFlag = {}
  /\ active = 0
  /\ controlled = {}
  /\ discarded = {}
  /\ installNet = [u \in ManifestUrls |-> Pending]
  /\ received = <<>>
  /\ ops = [i \in OpIds |-> IdleOp]

\* ----------------------------------------------------------------- install
\* sw.js:23-26: a new sw.js is deployed, the runtime starts its worker and
\* dispatches install; the handler issues caches.open(CACHE_NAME) under
\* event.waitUntil.  The runtime runs one lifecycle phase at a time.
InstallStart ==
  /\ cand < MaxGen
  /\ wstate \in {"none", "activated", "redundant"}
  /\ pending = {}
  /\ cand' = cand + 1
  /\ wstate' = "installing"
  /\ ipc' = "open"
  /\ apc' = "idle"
  /\ installNet' = [u \in ManifestUrls |-> Pending]
  /\ UNCHANGED <<caches, pending, skipWaitingFlag, active,
                 controlled, discarded, received, ops>>

\* Mutant of InstallOpen: the callback does not return the promise of
\* cache.addAll, so the chain given to waitUntil fulfils at once and the
\* runtime marks the worker installed while addAll is still running.
InstallOpenNotAwaited ==
  /\ ipc = "open"
  /\ caches' = open(caches, CACHE_NAME(cand))
  /\ ipc' = "addAll"
  /\ wstate' = "installed"
  /\ UNCHANGED <<cand, apc, pending, skipWaitingFlag, active,
                 controlled, discarded, installNet, ops, received>>

\* Mutant of InstallOpen: the install handler deletes the store of the
\* version before.
InstallOpenPruning ==
  /\ ipc = "open"
  /\ caches' = open(delete(caches, CACHE_NAME(cand - 1)), CACHE_NAME(cand))
  /\ ipc' = "addAll"
  /\ UNCHANGED <<cand, wstate, apc, pending, skipWaitingFlag, active,
                 controlled, discarded, installNet, received, ops>>

\* sw.js:26-30: caches.open settles, the callback issues cache.addAll.
InstallOpen ==
  /\ ipc = "open"
  /\ caches' = open(caches, CACHE_NAME(cand))
  /\ ipc' = "addAll"
  /\ UNCHANGED <<cand, wstate, apc, pending, skipWaitingFlag, active,
                 controlled, discarded, installNet, ops, received>>

\* What the fetches of one cache.addAll(urlsToCache) may settle with: the
\* server answers with one of its contents, and at most one fetch fails.
InstallFetches ==
  {[u \in ManifestUrls |-> IF u \in failed THEN Null ELSE Response(u, body)] :
     body \in Bodies, failed \in {{}} \cup {{u} : u \in ManifestUrls}}

\* sw.js:29-34: cache.addAll settles.  Fulfilled: the callback calls
\* self.skipWaiting().  Rejected: the chain given to waitUntil rejects, the
\* install fails and the runtime discards the worker (and its flag).
InstallAddAll ==
  /\ ipc = "addAll"
  /\ \E fetched \in InstallFetches :
       /\ caches' = addAll(caches, CACHE_NAME(cand), ManifestUrls, fetched)
       /\ IF \A u \in ManifestUrls : fetched[u] # Null
          THEN /\ ipc' = "skipWaiting"
               /\ installNet' = fetched
               /\ UNCHANGED <<wstate, discarded, skipWaitingFlag>>
          ELSE /\ ipc' = "failed"
               /\ wstate' = "redundant"
               /\ discarded' = discarded \cup {cand}
               /\ skipWaitingFlag' = skipWaitingFlag \ {cand}
               /\ UNCHANGED installNet
  /\ UNCHANGED <<cand, apc, pending, active, controlled, ops, received>>

\* Mutant of InstallSkipWaiting: the install handler does not call
\* self.skipWaiting().
InstallWithoutSkipWaiting ==
  /\ ipc = "skipWaiting"
  /\ ipc' = "done"
  /\ wstate' = "installed"
  /\ UNCHANGED <<caches, cand, apc, pending, skipWaitingFlag, active,
                 controlled, discarded, installNet, received, ops>>

\* sw.js:31-35: self.skipWaiting() sets the worker's skip-waiting flag; its
\* promise fulfils, so does the chain given to waitUntil, and the runtime
\* marks the worker installed.
InstallSkipWaiting ==
  /\ ipc = "skipWaiting"
  /\ skipWaitingFlag' = skipWaitingFlag \cup {cand}
  /\ ipc' = "done"
  /\ wstate' = "installed"
  /\ UNCHANGED <<caches, cand, apc, pending, active, controlled, discarded,
                 installNet, ops, received>>

\* ---------------------------------------------------------------- activate
\* The runtime's rule for activating the installed worker: at once when its
\* skip-waiting flag is set, else only when the registration controls no page.
CanActivate ==
  /\ wstate = "installed"
  /\ (cand \in skipWaitingFlag \/ controlled = {} \/ active = 0)

\* sw.js:39-42: the runtime makes the worker the registration's active
\* worker and dispatches activate; the handler issues caches.keys() under
\* event.waitUntil.
ActivateStart ==
  /\ CanActivate
  /\ wstate' = "activating"
  /\ active' = cand
  /\ apc' = "keys"
  /\ UNCHANGED <<caches, cand, ipc, pending, skipWaitingFlag,
                 controlled, discarded, installNet, ops, received>>

\* Mutant of IsStale: only the store of the version before is deleted.
IsStaleOnlyPrevious(cacheName, g) == cacheName = CACHE_NAME(g - 1)

\* Mutant of IsStale: the comparison with CACHE_NAME is missing.
IsStaleAnyPrefixed(cacheName, g) == startsWith(cacheName, "spackler-")

\* Mutant of IsStale: the test of the prefix is missing.
IsStaleNotCurrent(cacheName, g) == cacheName # CACHE_NAME(g)

\* sw.js:45: the stores the callback of caches.keys() deletes.
IsStale(cacheName, g) ==
  cacheName # CACHE_NAME(g) /\ startsWith(cacheName, "spackler-")

StaleNames(cacheNames, g) ==
  {cacheNames[k] : k \in {j \in 1..Len(cacheNames) : IsStale(cacheNames[j], g)}}

\* sw.js:42-50: caches.keys() settles; the callback maps the names and
\* issues caches.delete for every stale one, all at once, under Promise.all.
ActivateKeys ==
  /\ apc = "keys"
  /\ pending' = StaleNames(keys(caches), cand)
  /\ apc' = "deleting"
  /\ UNCHANGED <<caches, cand, wstate, ipc, skipWaitingFlag, active,
                 controlled, discarded, installNet, ops, received>>

\* A Cache object that a fetch event opened stays usable after its store is
\* deleted, but it is no longer the store of that name.
Detach(os, name) ==
  [i \in OpIds |->
     IF os[i].handle = "open" /\ CACHE_NAME(os[i].g) = name
     THEN [os[i] EXCEPT !.handle = "detached"]
     ELSE os[i]]

\* sw.js:47: one caches.delete fulfils: the store is gone.
ActivateDelete(name) ==
  /\ name \in pending
  /\ caches' = delete(caches, name)
  /\ pending' = pending \ {name}
  /\ ops' = Detach(ops, name)
  /\ UNCHANGED <<cand, wstate, ipc, apc, skipWaitingFlag, active,
                 controlled, discarded, installNet, received>>

\* Mutant of ActivateDeleteReject: the first rejection abandons the
\* deletions that have not settled yet.
ActivateDeleteRejectAbandons(name) ==
  /\ name \in pending
  /\ pending' = {}
  /\ apc' = "failed"
  /\ wstate' = "activated"
  /\ UNCHANGED <<caches, cand, ipc, skipWaitingFlag, active,
                 controlled, discarded, installNet, received, ops>>

\* sw.js:43-51: one caches.delete rejects: the store stays.  Promise.all
\* rejects with the first rejection, the callback of sw.js:51 is skipped
\* and the chain given to waitUntil rejects; the runtime activates the
\* worker all the same.  The other deletions go on.
ActivateDeleteReject(name) ==
  /\ name \in pending
  /\ pending' = pending \ {name}
  /\ apc' = "failed"
  /\ wstate' = "activated"
  /\ UNCHANGED <<caches, cand, ipc, skipWaitingFlag, active,
                 controlled, discarded, installNet, ops, received>>

\* Mutant of ActivateClaim: the callback does not wait for the deletions.
ActivateClaimEarly ==
  /\ apc = "deleting"
  /\ controlled' = Pages
  /\ apc' = "done"
  /\ wstate' = "activated"
  /\ UNCHANGED <<caches, cand, ipc, pending, skipWaitingFlag, active,
                 discarded, installNet, received, ops>>

\* sw.js:51-55: every deletion fulfilled (or none was issued): the callback
\* calls self.clients.claim(), every open page becomes controlled, the chain
\* given to waitUntil fulfils and the runtime marks the worker activated.
ActivateClaim ==
  /\ apc = "deleting"
  /\ pending = {}
  /\ controlled' = Pages
  /\ apc' = "done"
  /\ wstate' = "activated"
  /\ UNCHANGED <<caches, cand, ipc, pending, skipWaitingFlag, active,
                 discarded, installNet, ops, received>>

\* A page is loaded (or reloaded) while the registration has an active
\* worker: the registration controls it from then on.
PageLoad(p) ==
  /\ active # 0
  /\ p \notin controlled
  /\ controlled' = controlled \cup {p}
  /\ UNCHANGED <<caches, lifecycle, ops>>

\* ----------------------------------------------------------------- message
MessageData == {"skipWaiting", "other"}

\* The workers that can receive a message: the deployed one unless it was
\* discarded, and the active one.
LiveWorkers ==
  (IF wstate \in {"none", "redundant"} THEN {} ELSE {cand})
    \cup (IF active = 0 THEN {} ELSE {active})

\* Mutant of OnMessage: any payload is taken for the command.
OnMessageAnyPayload(flags, g, data) == flags \cup {g}

\* sw.js:109-112: what the handler does to the skip-waiting flags, run by
\* the worker of generation g for a message whose payload is data:
\* self.skipWaiting() when data === 'skipWaiting', nothing else.
OnMessage(flags, g, data) ==
  IF data = "skipWaiting" THEN flags \cup {g} ELSE flags

\* sw.js:108-113: a message event is dispatched to the worker of generation
\* g and its handler runs.  The handler reads event.data and calls nothing
\* but self.skipWaiting(): no store operation, no postMessage, no throw.
Deliver(g, data) ==
  /\ g \in LiveWorkers
  /\ skipWaitingFlag' = OnMessage(skipWaitingFlag, g, data)
  /\ UNCHANGED <<caches, cand, wstate, ipc, apc, pending, active,
                 controlled, discarded, installNet, ops>>

Message(g, data) ==
  /\ Deliver(g, data)
  /\ UNCHANGED received

\* The same event, recorded: which worker handled which payload.
MessageRecorded(g, data) ==
  /\ Len(received) < MaxMsgs
  /\ Deliver(g, data)
  /\ received' = Append(received, [g |-> g, data |-> data])

\* ------------------------------------------------------------------- fetch
\* A fetch event is dispatched to the active worker once it is activated,
\* for a request of a page the registration controls.
CanDispatch ==
  /\ active # 0
  /\ (active = cand => wstate = "activated")
  /\ controlled # {}

\* Mutant of Route: the /api/ guard is missing.
RouteWithoutApiGuard(g, req) ==
  IF req.method # "GET"
  THEN [IdleOp EXCEPT !.g = g, !.req = req, !.pc = "passthrough"]
  ELSE IF req.mode = "navigate"
  THEN [IdleOp EXCEPT !.g = g, !.req = req, !.pc = "nav_fetch",
                      !.log = {"respondWith", "fetch"}]
  ELSE [IdleOp EXCEPT !.g = g, !.req = req, !.pc = "swr_match",
                      !.log = {"respondWith", "match"}]

\* sw.js:59-90, the synchronous part of the handler run by the worker of
\* generation g: the two guards return without event.respondWith, so the
\* runtime sends the request to the network itself; a navigation responds
\* with the chain that starts with fetch; any other request responds with
\* the chain that starts with caches.match.
Route(g, req) ==
  IF req.method # "GET"
  THEN [IdleOp EXCEPT !.g = g, !.req = req, !.pc = "passthrough"]
  ELSE IF IsApiPath(req.url)
  THEN [IdleOp EXCEPT !.g = g, !.req = req, !.pc = "passthrough"]
  ELSE IF req.mode = "navigate"
  THEN [IdleOp EXCEPT !.g = g, !.req = req, !.pc = "nav_fetch",
                      !.log = {"respondWith", "fetch"}]
  ELSE [IdleOp EXCEPT !.g = g, !.req = req, !.pc = "swr_match",
                      !.log = {"respondWith", "match"}]

FetchStart(i, req) ==
  /\ ops[i].pc = "idle"
  /\ \A j \in OpIds : j < i => ops[j].pc # "idle"
  /\ CanDispatch
  /\ ops' = [ops EXCEPT ![i] = Route(active, req)]
  /\ UNCHANGED <<caches, lifecycle, controlled>>

\* sw.js:73-78: the network answers a navigation; the callback clones the
\* response, issues caches.open(CACHE_NAME) without waiting for it and
\* returns the response, which settles the promise given to respondWith.
NavFetched(op, response) ==
  [op EXCEPT !.net = response, !.out = response, !.pc = "nav_open",
             !.log = @ \cup {"open"}]

NavFetchOk(i) ==
  /\ ops[i].pc = "nav_fetch"
  /\ \E body \in Bodies :
       ops' = [ops EXCEPT ![i] = NavFetched(@, Response(@.req.url, body))]
  /\ UNCHANGED <<caches, lifecycle, controlled>>

\* sw.js:79-82: the network fails; the catch callback issues
\* caches.match(event.request).
NavFetchFail(i) ==
  /\ ops[i].pc = "nav_fetch"
  /\ ops' = [ops EXCEPT ![i] = [@ EXCEPT !.net = Null, !.pc = "nav_match",
                                         !.log = @ \cup {"match"}]]
  /\ UNCHANGED <<caches, lifecycle, controlled>>

\* Mutant of NavMatched: the offline document is looked up whatever cached is.
NavMatchedOfflineOnly(op, cached) ==
  [op EXCEPT !.cached = cached, !.pc = "nav_offline"]

\* sw.js:82: cached || caches.match('/static/offline.html'), given cached.
NavMatched(op, cached) ==
  IF Truthy(cached)
  THEN [op EXCEPT !.cached = cached, !.out = cached, !.pc = "done"]
  ELSE [op EXCEPT !.cached = cached, !.pc = "nav_offline"]

NavMatch(i) ==
  /\ ops[i].pc = "nav_match"
  /\ ops' = [ops EXCEPT ![i] = NavMatched(@, match(caches, @.req.url))]
  /\ UNCHANGED <<caches, lifecycle, controlled>>

\* Mutant of NavOffline: the offline document that is delivered is also
\* stored under the key of the request.
NavOfflineStored(i) ==
  /\ ops[i].pc = "nav_offline"
  /\ ops' = [ops EXCEPT ![i] = [@ EXCEPT !.out = match(caches, OFFLINE_URL),
                                         !.pc = "done"]]
  /\ caches' = IF match(caches, OFFLINE_URL).kind = "response"
               THEN put(caches, CACHE_NAME(ops[i].g), ops[i].req.url,
                        match(caches, OFFLINE_URL))
               ELSE caches
  /\ UNCHANGED <<lifecycle, controlled>>

\* sw.js:82: the lookup of the offline document settles the response.
NavOffline(i) ==
  /\ ops[i].pc = "nav_offline"
  /\ ops' = [ops EXCEPT ![i] = [@ EXCEPT !.out = match(caches, OFFLINE_URL),
                                         !.pc = "done"]]
  /\ UNCHANGED <<caches, lifecycle, controlled>>

\* sw.js:91-102: caches.match settles with cached; the callback issues the
\* fetch and returns  cached || fetchPromise || caches.match(offline): the
\* first truthy operand.  What the promise given to respondWith then
\* settles with: cached itself, or whatever the returned promise settles
\* with (awaits names that promise).
Returned(cached) ==
  IF Truthy(cached) THEN cached
  ELSE IF Truthy(FetchPromise) THEN FetchPromise
  ELSE [kind |-> "offline-match"]

\* Mutant of SwrMatched: the callback returns fetchPromise whatever cached is.
SwrMatchedNetworkFirst(op, cached) ==
  [op EXCEPT !.cached = cached, !.out = Pending, !.awaits = "fetchPromise",
             !.pc = "swr_fetch", !.log = @ \cup {"fetch"}]

SwrMatched(op, cached) ==
  LET r == Returned(cached)
  IN [op EXCEPT !.cached = cached,
                !.out = IF r.kind = "response" THEN r ELSE Pending,
                !.awaits = IF r.kind = "promise" THEN "fetchPromise"
                           ELSE IF r.kind = "offline-match" THEN "offline"
                           ELSE "none",
                !.pc = "swr_fetch",
                !.log = @ \cup {"fetch"}]

SwrMatch(i) ==
  /\ ops[i].pc = "swr_match"
  /\ ops' = [ops EXCEPT ![i] = SwrMatched(@, match(caches, @.req.url))]
  /\ UNCHANGED <<caches, lifecycle, controlled>>

\* sw.js:93-98: the network answers the revalidation; the callback clones
\* the response, issues caches.open(CACHE_NAME) and returns the response:
\* fetchPromise fulfils with it.
SwrFetched(op, response) ==
  [op EXCEPT !.net = response,
             !.out = IF op.awaits = "fetchPromise" THEN response ELSE @,
             !.pc = "swr_open",
             !.log = @ \cup {"open"}]

SwrFetchOk(i) ==
  /\ ops[i].pc = "swr_fetch"
  /\ \E body \in Bodies :
       ops' = [ops EXCEPT ![i] = SwrFetched(@, Response(@.req.url, body))]
  /\ UNCHANGED <<caches, lifecycle, controlled>>

\* sw.js:99: the network fails; .catch(() => null): fetchPromise fulfils
\* with null.
SwrFailed(op) ==
  [op EXCEPT !.net = Null,
             !.out = IF op.awaits = "fetchPromise" THEN Null ELSE @,
             !.pc = "done"]

SwrFetchFail(i) ==
  /\ ops[i].pc = "swr_fetch"
  /\ ops' = [ops EXCEPT ![i] = SwrFailed(@)]
  /\ UNCHANGED <<caches, lifecycle, controlled>>

\* sw.js:76, 96: caches.open(CACHE_NAME) settles (creating the store when
\* it does not exist); the callback issues cache.put on the Cache object.
CacheOpen(i) ==
  /\ ops[i].pc \in {"nav_open", "swr_open"}
  /\ caches' = open(caches, CACHE_NAME(ops[i].g))
  /\ ops' = [ops EXCEPT ![i] = [@ EXCEPT !.pc = "put", !.handle = "open",
                                         !.log = @ \cup {"put"}]]
  /\ UNCHANGED <<lifecycle, controlled>>

\* sw.js:76, 96: cache.put(event.request, clone) settles.  The entry is
\* written to the Cache object that was opened: the store of that name,
\* unless that store was deleted since.
CachePut(i) ==
  /\ ops[i].pc = "put"
  /\ caches' = IF ops[i].handle = "open"
               THEN put(caches, CACHE_NAME(ops[i].g), ops[i].req.url,
                        clone(ops[i].net))
               ELSE caches
  /\ ops' = [ops EXCEPT ![i] = [@ EXCEPT !.pc = "done",
                                         !.landed = (ops[i].handle = "open")]]
  /\ UNCHANGED <<lifecycle, controlled>>

\* ------------------------------------------------------------ specification
Next ==
  \/ InstallStart
  \/ InstallOpen
  \/ InstallAddAll
  \/ InstallSkipWaiting
  \/ ActivateStart
  \/ ActivateKeys
  \/ \E name \in pending : ActivateDelete(name)
  \/ \E name \in pending : ActivateDeleteReject(name)
  \/ ActivateClaim
  \/ \E p \in Pages : PageLoad(p)
  \/ \E g \in Gens, data \in MessageData : Message(g, data)
  \/ \E i \in OpIds, req \in Requests : FetchStart(i, req)
  \/ \E i \in OpIds : NavFetchOk(i)
  \/ \E i \in OpIds : NavFetchFail(i)
  \/ \E i \in OpIds : NavMatch(i)
  \/ \E i \in OpIds : NavOffline(i)
  \/ \E i \in OpIds : SwrMatch(i)
  \/ \E i \in OpIds : SwrFetchOk(i)
  \/ \E i \in OpIds : SwrFetchFail(i)
  \/ \E i \in OpIds : CacheOpen(i)
  \/ \E i \in OpIds : CachePut(i)

Spec == Init /\ [][Next]_vars

\* The callbacks of caches.open and cache.put of a fetch event run once the
\* store operation settles: the event loop does not starve them.
FairSpec ==
  /\ Spec
  /\ \A i \in OpIds : WF_vars(CacheOpen(i)) /\ WF_vars(CachePut(i))

\* The runtime dispatches activate to an installed worker that may be
\* activated, and caches.keys, every caches.delete (fulfilled or rejected)
\* and the callback that claims the pages are not starved.  Nothing is
\* assumed about messages or about fetch events.
LifecycleFairSpec ==
  /\ Spec
  /\ WF_vars(ActivateStart)
  /\ WF_vars(ActivateKeys)
  /\ WF_vars(\E name \in pending :
               ActivateDelete(name) \/ ActivateDeleteReject(name))
  /\ WF_vars(ActivateClaim)

\* The worker with its message events recorded: the lifecycle, the message
\* handler and the first fetch event.
ObservedNext ==
  \/ InstallStart
  \/ InstallOpen
  \/ InstallAddAll
  \/ InstallSkipWaiting
  \/ ActivateStart
  \/ ActivateKeys
  \/ \E name \in pending : ActivateDelete(name)
  \/ \E name \in pending : ActivateDeleteReject(name)
  \/ ActivateClaim
  \/ \E p \in Pages : PageLoad(p)
  \/ \E g \in Gens, data \in MessageData : MessageRecorded(g, data)
  \/ \E req \in Requests : FetchStart(1, req)
  \/ NavFetchOk(1)
  \/ NavFetchFail(1)
  \/ NavMatch(1)
  \/ NavOffline(1)
  \/ SwrMatch(1)
  \/ SwrFetchOk(1)
  \/ SwrFetchFail(1)
  \/ CacheOpen(1)
  \/ CachePut(1)

MessageSpec == Init /\ [][ObservedNext]_vars

\* ------------------------------------------------------- derived predicates
PrefixStores == {n \in StoreNames(caches) : startsWith(n, "spackler-")}

\* The fetch event i was intercepted as a navigation / as another GET.
IsNav(i) ==
  /\ ops[i].pc # "idle"
  /\ ops[i].req.method = "GET"
  /\ ~IsApiPath(ops[i].req.url)
  /\ ops[i].req.mode = "navigate"

IsSwr(i) ==
  /\ ops[i].pc # "idle"
  /\ ops[i].req.method = "GET"
  /\ ~IsApiPath(ops[i].req.url)
  /\ ops[i].req.mode # "navigate"

IsOfflineDocument(r) == r.kind = "response" /\ r.url = OFFLINE_URL

\* A fetch event of another generation's worker holds an open Cache object
\* of the store called name.
HeldByOtherGeneration(name) ==
  \E i \in OpIds : /\ ops[i].handle = "open"
                   /\ ops[i].g # cand
                   /\ CACHE_NAME(ops[i].g) = name

\* ------------------------------------------------------------------ claims
\* C1 (as claimed): a non-navigation GET outside /api/ with no cached value
\* whose network fetch failed, the offline document being in a store, is
\* answered with the offline document, never with null.
C1_OfflineInsteadOfNull ==
  \A i \in OpIds :
    (/\ IsSwr(i)
     /\ ops[i].pc = "done"
     /\ ops[i].cached = Undefined
     /\ ops[i].net = Null
     /\ match(caches, OFFLINE_URL) # Undefined)
    => IsOfflineDocument(ops[i].out)

\* C2 (as claimed): at the step that completes activate, the stores with the
\* prefix 'spackler-' are exactly {CACHE_NAME}.
C2_OnlyCurrentAtCompletion ==
  [][(apc # "done" /\ apc' = "done")
       => PrefixStores' = {CACHE_NAME(cand)}]_vars

\* C2 (amended): at the step that completes activate, the store CACHE_NAME
\* exists and every other store with the prefix is one that a fetch event of
\* another generation's worker, still in flight, holds open: every stale
\* store that was enumerated is deleted, and only caches.open of such an
\* event can have created one again.
C2_StaleDeletedAtCompletion ==
  [][(apc # "done" /\ apc' = "done")
       => /\ CACHE_NAME(cand) \in PrefixStores'
          /\ \A n \in PrefixStores' \ {CACHE_NAME(cand)} :
               HeldByOtherGeneration(n)']_vars

\* C2 witness: the second generation's activate completed and left its own
\* store as the only one with the prefix.
C2_Witness ==
  /\ apc = "done"
  /\ cand = 2
  /\ PrefixStores = {CACHE_NAME(2)}

\* C3 (as claimed): once activate has completed (and until a newer
\* generation installs) exactly one store with the prefix exists.
C3_ExactlyOneAfterActivation ==
  apc = "done" => Cardinality(PrefixStores) = 1

\* C3 (amended): once activate has completed (and until a newer generation
\* installs) the store CACHE_NAME exists, and any other store with the
\* prefix is one re-created by caches.open of a fetch event of another
\* generation's worker that was in flight.
C3_CurrentPlusRecreated ==
  apc = "done"
    => /\ CACHE_NAME(cand) \in PrefixStores
       /\ \A n \in PrefixStores \ {CACHE_NAME(cand)} : HeldByOtherGeneration(n)

\* C3 witness: activate has completed and a late write of the previous
\* generation's worker has re-created that generation's store.
C3_Witness ==
  /\ apc = "done"
  /\ cand = 2
  /\ PrefixStores = {CACHE_NAME(1), CACHE_NAME(2)}

\* C4: a request that is not a GET, or whose path is under /api/, is not
\* answered by the handler: no respondWith, no store read or write, no fetch.
C4_PassThrough ==
  \A i \in OpIds :
    (ops[i].pc # "idle"
       /\ (ops[i].req.method # "GET" \/ IsApiPath(ops[i].req.url)))
    => /\ ops[i].pc = "passthrough"
       /\ ops[i].log = {}
       /\ ops[i].out = Pending
       /\ ops[i].handle = "none"

\* C4 witness: a navigation GET under /api/ and a POST both passed through.
C4_Witness ==
  \E i, j \in OpIds :
    /\ ops[i].pc = "passthrough"
    /\ ops[i].req.method = "GET"
    /\ ops[i].req.mode = "navigate"
    /\ IsApiPath(ops[i].req.url)
    /\ ops[j].pc = "passthrough"
    /\ ops[j].req.method = "POST"

\* C5: a generation whose install failed on a manifest fetch has no manifest
\* entry in its store, its install handler never reached skipWaiting, it
\* never ran activate and never became the active worker.
C5_FailedInstallAllOrNothing ==
  /\ \A g \in discarded :
       /\ active # g
       /\ \A u \in ManifestUrls : u \notin DOMAIN EntriesOf(caches, CACHE_NAME(g))
  /\ cand \in discarded
       => /\ ipc = "failed"
          /\ apc = "idle"
          /\ wstate = "redundant"

\* C5 witness: the second generation's install failed on one entry while
\* the first generation is active; its store exists.
C5_Witness ==
  /\ 2 \in discarded
  /\ active = 1
  /\ CACHE_NAME(2) \in StoreNames(caches)
  /\ EntriesOf(caches, CACHE_NAME(2)) = NoEntries

\* C6: when an install has completed, the store CACHE_NAME holds, under each
\* of the ten manifest URLs, the response the network gave for it.
C6_ManifestStored ==
  wstate = "installed"
    => /\ Len(urlsToCache) = 10
       /\ Cardinality(ManifestUrls) = 10
       /\ \A k \in 1..Len(urlsToCache) :
            LET u == urlsToCache[k]
                held == EntriesOf(caches, CACHE_NAME(cand))
            IN /\ u \in DOMAIN held
               /\ installNet[u].kind = "response"
               /\ installNet[u].url = u
               /\ held[u] = installNet[u]

\* C6 witness: the second generation's install completed.
C6_Witness ==
  /\ wstate = "installed"
  /\ cand = 2
  /\ EntriesOf(caches, CACHE_NAME(2))[OFFLINE_URL] = Response(OFFLINE_URL, 2)

\* The fetch event i fetched a response and its caches.open or cache.put
\* has not settled yet.
WritePending(i) == ops[i].pc \in {"nav_open", "swr_open", "put"}

\* The fetch event i fetched a response and its cache.put has settled.
Wrote(i) == ops[i].pc = "done" /\ ops[i].net.kind = "response"

\* The step in which the cache.put of fetch event i settles on a Cache
\* object that still is the store of its worker's CACHE_NAME leaves that
\* store holding the fetched response under the request's URL.
PutLands(i) ==
  (ops[i].pc = "put" /\ ops'[i].pc = "done" /\ ops[i].handle = "open")
    => /\ ops[i].req.url \in DOMAIN EntriesOf(caches', CACHE_NAME(ops[i].g))
       /\ EntriesOf(caches', CACHE_NAME(ops[i].g))[ops[i].req.url] = ops[i].net
       /\ ops'[i].landed

\* C7 (as claimed): a navigation whose network fetch succeeded is answered
\* with the network response, and once its write has settled the store of
\* its worker's CACHE_NAME has received the copy.
C7_NetworkFirstStored ==
  \A i \in OpIds :
    /\ (IsNav(i) /\ ops[i].net.kind = "response") => ops[i].out = ops[i].net
    /\ (IsNav(i) /\ Wrote(i)) => ops[i].landed

\* C7 (amended): a navigation whose network fetch succeeded is answered with
\* the network response; its caches.open and cache.put eventually settle;
\* the put leaves the copy in the store of its worker's CACHE_NAME under the
\* request's URL, unless that store was deleted (by the activate of another
\* generation) between the open and the put.
C7_NetworkFirstStoredUnlessDeleted ==
  /\ [](\A i \in OpIds :
          /\ (IsNav(i) /\ ops[i].net.kind = "response") => ops[i].out = ops[i].net
          /\ (IsNav(i) /\ Wrote(i))
               => (ops[i].landed \/ ops[i].handle = "detached"))
  /\ [][\A i \in OpIds : IsNav(i) => PutLands(i)]_vars
  /\ \A i \in OpIds : []<>(~(IsNav(i) /\ WritePending(i)))

\* C7 witness: a navigation was answered with a network response that
\* differs from the value cached for it, and its copy is in the store.
C7_Witness ==
  \E i \in OpIds :
    /\ IsNav(i)
    /\ Wrote(i)
    /\ ops[i].landed
    /\ ops[i].req.url = <<"">>
    /\ ops[i].out = Response(<<"">>, 2)
    /\ installNet[<<"">>] = Response(<<"">>, 1)
    /\ EntriesOf(caches, CACHE_NAME(ops[i].g))[<<"">>] = ops[i].out

\* C8: a navigation whose network fetch failed is answered with the value
\* cached for the request when there is one, else with the offline document.
C8_NavigationFallback ==
  \A i \in OpIds :
    (IsNav(i) /\ ops[i].net = Null /\ ops[i].pc = "done")
    => /\ ops[i].cached.kind \in {"response", "undefined"}
       /\ ops[i].cached.kind = "response"
            => (ops[i].out = ops[i].cached /\ ops[i].out.url = ops[i].req.url)
       /\ ops[i].cached.kind = "undefined" => IsOfflineDocument(ops[i].out)

\* C8 witness: one failed navigation was answered from the cache (the
\* offline document being stored too), another with the offline document.
C8_Witness ==
  \E i, j \in OpIds :
    /\ IsNav(i) /\ ops[i].net = Null /\ ops[i].pc = "done"
    /\ ops[i].cached.kind = "response"
    /\ ops[i].out = ops[i].cached
    /\ match(caches, OFFLINE_URL) # Undefined
    /\ IsNav(j) /\ ops[j].net = Null /\ ops[j].pc = "done"
    /\ ops[j].cached = Undefined
    /\ IsOfflineDocument(ops[j].out)

\* C9 (as claimed): another GET with a cached value is answered with that
\* value as soon as the lookup settles, whatever the network does, and once
\* the write of a fetched response has settled the store of its worker's
\* CACHE_NAME has received the fresh response.
C9_StaleWhileRevalidate ==
  \A i \in OpIds :
    /\ (IsSwr(i) /\ ops[i].cached.kind = "response") => ops[i].out = ops[i].cached
    /\ (IsSwr(i) /\ ops[i].cached.kind = "response" /\ Wrote(i)) => ops[i].landed

\* C9 (amended): another GET with a cached value is answered with that value
\* as soon as the lookup settles, whatever the network does; when the fetch
\* succeeds, caches.open and cache.put eventually settle, and the put leaves
\* the fresh response in the store of its worker's CACHE_NAME under the
\* request's URL, unless that store was deleted between the open and the put.
C9_StaleWhileRevalidateUnlessDeleted ==
  /\ [](\A i \in OpIds :
          /\ (IsSwr(i) /\ ops[i].cached.kind = "response")
               => ops[i].out = ops[i].cached
          /\ (IsSwr(i) /\ ops[i].cached.kind = "response" /\ Wrote(i))
               => (ops[i].landed \/ ops[i].handle = "detached"))
  /\ [][\A i \in OpIds : IsSwr(i) => PutLands(i)]_vars
  /\ \A i \in OpIds : []<>(~(IsSwr(i) /\ WritePending(i)))

\* C9 witness: one GET has its cached value as the answer while its fetch is
\* still pending; another was answered with the cached value and has left a
\* different, fresh response in the store.
C9_Witness ==
  \E i, j \in OpIds :
    /\ IsSwr(i) /\ ops[i].pc = "swr_fetch"
    /\ ops[i].cached.kind = "response"
    /\ ops[i].out = ops[i].cached
    /\ IsSwr(j) /\ Wrote(j) /\ ops[j].landed
    /\ ops[j].cached.kind = "response"
    /\ ops[j].out = ops[j].cached
    /\ ops[j].net # ops[j].cached

\* C10: the activate handler of a generation runs only once its install
\* handler has completed successfully, never while it is still running, also
\* when a 'skipWaiting' message set the flag during the install.
C10_ActivateAfterInstall ==
  /\ (apc # "idle" \/ wstate \in {"activating", "activated"}
        \/ (cand # 0 /\ active = cand))
       => ipc = "done"
  /\ ipc \in {"open", "addAll", "skipWaiting"}
       => (apc = "idle" /\ wstate \notin {"activating", "activated"})

\* C10 witness: the skip-waiting flag was set by a message while the install
\* handler is still waiting for cache.addAll, and activate has not started.
C10_Witness ==
  /\ ipc = "addAll"
  /\ cand \in skipWaitingFlag
  /\ wstate = "installing"
  /\ apc = "idle"
  /\ active # cand
\* C11: a generation whose install completed may be activated at once,
\* because its own install handler set the skip-waiting flag: no message
\* and no page closing is needed.  It then does run activate: it leaves the
\* states installed and activating, as the active worker, and unless a
\* store deletion was rejected it has claimed every open page.
C11_TakesOverAfterInstall ==
  /\ [](wstate = "installed" => (cand \in skipWaitingFlag /\ CanActivate))
  /\ [](wstate \in {"activating", "activated"} => active = cand)
  /\ [](wstate = "activated" => apc \in {"done", "failed"})
  /\ [](apc = "done" => (wstate = "activated" /\ controlled = Pages))
  /\ []<>(wstate \notin {"installed", "activating"})

\* C11 witness: the second generation is the active worker and has claimed
\* the pages while a fetch event of a page of the first generation's worker
\* is still in flight: that page was not closed.
C11_Witness ==
  /\ cand = 2
  /\ active = 2
  /\ apc = "done"
  /\ controlled = Pages
  /\ \E i \in OpIds : ops[i].g = 1 /\ ops[i].pc \in {"nav_fetch", "swr_fetch"}
\* C12: a store disappears only in a step of the activate handler: the
\* settling of a caches.delete that activate issued and that was pending.
\* No step of the install handler, of a fetch event or of the message
\* handler removes a store, or removes an entry from a store that stays.
C12_OnlyActivateDeletes ==
  [][(\A n \in StoreNames(caches) \ StoreNames(caches') :
         /\ apc \in {"deleting", "failed"}
         /\ n \in pending
         /\ n \notin pending'
         /\ ipc' = ipc
         /\ skipWaitingFlag' = skipWaitingFlag
         /\ \A i \in OpIds : ops'[i].pc = ops[i].pc /\ ops'[i].log = ops[i].log)
     /\
     (\A m \in StoreNames(caches) \cap StoreNames(caches') :
         DOMAIN EntriesOf(caches, m) \subseteq DOMAIN EntriesOf(caches', m))
    ]_vars

\* C12 witness: the install handler of the second generation, its activate
\* handler and a fetch event have run, and the store of the first
\* generation is gone while the one of the second generation exists.
C12_Witness ==
  /\ cand = 2
  /\ apc = "done"
  /\ CACHE_NAME(1) \notin StoreNames(caches)
  /\ CACHE_NAME(2) \in StoreNames(caches)
  /\ \E i \in OpIds : ops[i].g = 2 /\ ops[i].pc = "done" /\ ops[i].landed
\* C13: the callback of caches.keys issues the deletion of every stale store
\* it was given, whatever their order; a deletion that is rejected settles
\* that deletion only, the others stay issued; and a deletion that is
\* fulfilled, before or after a rejection, removes its store.
C13_IndependentDeletions ==
  [][/\ (apc = "keys" /\ apc' = "deleting")
          => pending' = {n \in StoreNames(caches) : IsStale(n, cand)}
     /\ (apc \in {"deleting", "failed"} /\ pending' # pending)
          => /\ pending' \subseteq pending
             /\ Cardinality(pending \ pending') = 1
             /\ apc' \in {apc, "failed"}
             /\ \A n \in pending \ pending' :
                  \/ n \notin StoreNames(caches')
                  \/ (apc' = "failed" /\ caches' = caches)
     /\ (apc = "failed" /\ apc' = "failed" /\ caches' # caches
           /\ pending' # pending)
          => \A n \in pending \ pending' : n \notin StoreNames(caches')
    ]_vars

\* C13 witness: of the two stale stores the second generation's activate
\* found, the deletion of one was rejected (the store is still there) and
\* the deletion of the other took effect, activate having failed.
C13_Witness ==
  /\ cand = 2
  /\ apc = "failed"
  /\ pending = {}
  /\ \E n, m \in {CACHE_NAME(0), CACHE_NAME(1)} :
       /\ n \in StoreNames(caches)
       /\ m \notin StoreNames(caches)
       /\ \A i \in OpIds : ops[i].pc \in {"idle", "passthrough"}
\* C14: a message event changes nothing but the skip-waiting flag of the
\* worker that handled it, and that only when its payload is 'skipWaiting':
\* with any other payload every store, the lifecycle and every fetch event
\* are as they were, and activation has not been requested.
C14_OnlySkipWaitingCommand ==
  [][Len(received') > Len(received)
       => LET m == received'[Len(received')]
          IN /\ caches' = caches
             /\ <<cand, wstate, ipc, apc, pending, active, controlled,
                  discarded, installNet, ops>>'
                  = <<cand, wstate, ipc, apc, pending, active, controlled,
                      discarded, installNet, ops>>
             /\ m.data # "skipWaiting" => skipWaitingFlag' = skipWaitingFlag
             /\ m.data = "skipWaiting"
                  => skipWaitingFlag' = skipWaitingFlag \cup {m.g}
    ]_vars

\* C14 witness: the worker of the second generation, still installing,
\* handled a message with another payload, which left its flag unset, and
\* then the message 'skipWaiting', which set it.
C14_Witness ==
  /\ cand = 2
  /\ wstate = "installing"
  /\ received = << [g |-> 2, data |-> "other"],
                   [g |-> 2, data |-> "skipWaiting"] >>
  /\ skipWaitingFlag = {1, 2}
\* What the store of the worker that handles fetch event i holds for url
\* (undefined: nothing).
OwnEntry(i, url) ==
  LET own == EntriesOf(caches, CACHE_NAME(ops[i].g))
  IN IF url \in DOMAIN own THEN own[url] ELSE Undefined

\* C15 (as claimed): every lookup of a fetch event reads the store of its
\* worker's CACHE_NAME: the value found for the request is the one that
\* store holds (nothing when it holds none), whatever a stale store or
\* another store of the origin holds, and the offline document delivered is
\* the one in that store.
C15_ReadsCurrentGenerationOnly ==
  [][\A i \in OpIds :
       /\ (ops[i].pc \in {"nav_match", "swr_match"} /\ ops'[i].pc # ops[i].pc)
            => ops'[i].cached = OwnEntry(i, ops[i].req.url)
       /\ (ops[i].pc = "nav_offline" /\ ops'[i].pc = "done")
            => ops'[i].out = OwnEntry(i, OFFLINE_URL)
    ]_vars
\* C16: no step removes the store CACHE_NAME of the generation that runs
\* activate, nor a store whose name does not start with 'spackler-'; and
\* when caches.keys finds no stale store, activate issues no deletion and
\* its next step claims the pages, the stores being left as they were.
C16_ActivateSparesCurrentAndForeign ==
  [][/\ \A n \in StoreNames(caches) \ StoreNames(caches') :
          n # CACHE_NAME(cand) /\ startsWith(n, "spackler-")
     /\ \A n \in pending' : n # CACHE_NAME(cand) /\ startsWith(n, "spackler-")
     /\ (apc = "keys" /\ apc' = "deleting"
           /\ PrefixStores \subseteq {CACHE_NAME(cand)})
          => (pending' = {} /\ caches' = caches)
     /\ (apc = "deleting" /\ apc' # apc /\ pending = {})
          => (apc' = "done" /\ controlled' = Pages /\ caches' = caches)
    ]_vars

\* C16 witness: the first generation's activate found no store but its
\* own and completed: that store is still there, with the manifest in it,
\* and the pages are claimed.
C16_Witness ==
  /\ cand = 1
  /\ apc = "done"
  /\ controlled = Pages
  /\ StoreNames(caches) = {CACHE_NAME(1)}
  /\ DOMAIN EntriesOf(caches, CACHE_NAME(1)) = ManifestUrls
  /\ \A i \in OpIds : ops[i].pc = "idle"
\* The fetch events i and j, handled by the same worker, are for the same
\* request key and the network fetch of j has succeeded.
SameKeyFetched(i, j) ==
  /\ i # j
  /\ ops[i].g = ops[j].g
  /\ ops[i].req.url = ops[j].req.url
  /\ ops[j].net.kind = "response"

\* The step in which the cache.put of fetch event i settles.
PutSettles(i) == ops[i].pc = "put" /\ ops'[i].pc = "done"

\* In this step no store appears or disappears and no entry changes but,
\* possibly, the one under the request key of fetch event i in the store
\* of its worker's CACHE_NAME.
OtherKeysUnchanged(i) ==
  /\ StoreNames(caches') = StoreNames(caches)
  /\ \A n \in StoreNames(caches) :
       /\ DOMAIN EntriesOf(caches', n) \subseteq
            DOMAIN EntriesOf(caches, n) \cup {ops[i].req.url}
       /\ \A u \in DOMAIN EntriesOf(caches, n) :
            (n # CACHE_NAME(ops[i].g) \/ u # ops[i].req.url)
              => /\ u \in DOMAIN EntriesOf(caches', n)
                 /\ EntriesOf(caches', n)[u] = EntriesOf(caches, n)[u]

\* C17 (as claimed): when the cache.put of a fetch event settles while
\* another fetch event for the same key, whose fetch succeeded too, still
\* has its write in flight, the write lands: the store of CACHE_NAME then
\* holds the response of the event whose put settled, and no other entry
\* has changed.
C17_ConcurrentWritesBothLand ==
  [][\A i, j \in OpIds :
       (SameKeyFetched(i, j) /\ WritePending(j) /\ PutSettles(i))
         => /\ ops'[i].landed
            /\ OwnEntry(i, ops[i].req.url)' = ops[i].net
            /\ OtherKeysUnchanged(i)
    ]_vars

\* C17 (amended): when the cache.put of a fetch event settles and another
\* fetch event for the same key has fetched a response too, the write lands
\* and overwrites what the store of CACHE_NAME held under the key, whichever
\* of the two responses was fetched first, unless that store was deleted
\* between the open and the put of this write, in which case the write
\* reaches no store; no other entry changes in either case.
C17_LastWriteWinsUnlessDeleted ==
  [][\A i, j \in OpIds :
       (SameKeyFetched(i, j) /\ PutSettles(i))
         => /\ ops[i].handle = "open"
                 => /\ ops'[i].landed
                    /\ OwnEntry(i, ops[i].req.url)' = ops[i].net
            /\ ops[i].handle # "open"
                 => /\ ~ops'[i].landed
                    /\ caches' = caches
            /\ OtherKeysUnchanged(i)
    ]_vars

\* C17 witness: two fetch events of the second generation's worker for
\* "/" fetched different responses, both writes landed, and the store
\* holds the response of the event that was dispatched first: its write
\* landed last.
C17_Witness ==
  /\ ops[1].g = 2 /\ ops[2].g = 2
  /\ ops[1].req.url = <<"">> /\ ops[2].req.url = <<"">>
  /\ Wrote(1) /\ Wrote(2)
  /\ ops[1].landed /\ ops[2].landed
  /\ ops[1].net # ops[2].net
  /\ OwnEntry(1, <<"">>) = ops[1].net
  /\ installNet[<<"">>] = ops[2].net
\* C18: activate completes, which is the step that calls clients.claim,
\* only from the state in which every deletion it issued has been
\* fulfilled; once a deletion was rejected the activate work has failed for
\* good: that run never reaches the step that claims the pages, and it
\* ends only when a newer generation is deployed.
C18_ClaimAfterAllDeletions ==
  /\ [][(apc # "done" /\ apc' = "done")
          => (apc = "deleting" /\ pending = {} /\ controlled' = Pages)]_vars
  /\ [][(apc = "deleting" /\ pending' # pending /\ caches' = caches)
          => apc' = "failed"]_vars
  /\ [][apc = "failed"
          => /\ apc' \in {"failed", "idle"}
             /\ apc' = "idle" => cand' # cand
             /\ wstate' # "activating"]_vars

\* C18 witness: the second generation's activate issued two deletions, one
\* was rejected and the other is still pending: activate has failed and no
\* step of it has claimed the page, which the registration does not control.
C18_Witness ==
  /\ cand = 2
  /\ apc = "failed"
  /\ Cardinality(pending) = 1
  /\ controlled = {}
  /\ wstate = "activated"
\* Every entry of every store is a response for the URL it is stored under.
EntriesUnderOwnKey ==
  \A k \in 1..Len(caches) :
    \A u \in DOMAIN caches[k].entries :
      caches[k].entries[u].kind = "response" /\ caches[k].entries[u].url = u

\* C19: a fetch event whose network fetch failed or has not resolved has
\* issued no caches.open and no cache.put; a step of a fetch event that
\* changes the stores belongs to an event whose fetch succeeded, and it
\* either creates the (empty) store of its worker's CACHE_NAME or sets the
\* entry under the request's own key to the response that was fetched,
\* every other entry being left alone; so every entry is a response for
\* its own key, and the offline document is stored under no other key.
C19_WritesOnlyOwnFetchedResponse ==
  /\ [](EntriesUnderOwnKey
         /\ \A i \in OpIds :
              ops[i].net.kind # "response"
                => /\ ops[i].handle = "none"
                   /\ ~ops[i].landed
                   /\ ops[i].log \cap {"open", "put"} = {}
                   /\ ~WritePending(i))
  /\ [][\A i \in OpIds :
           (ops'[i] # ops[i] /\ caches' # caches /\ pending' = pending)
             => /\ ops[i].net.kind = "response"
                /\ ops[i].net.url = ops[i].req.url
                /\ \/ /\ CACHE_NAME(ops[i].g) \notin StoreNames(caches)
                      /\ caches' = Append(caches,
                                          [name |-> CACHE_NAME(ops[i].g),
                                           entries |-> NoEntries])
                   \/ /\ OtherKeysUnchanged(i)
                      /\ OwnEntry(i, ops[i].req.url)' = ops[i].net
      ]_vars

\* C19 witness: a navigation to "/app.js" whose fetch failed was answered
\* with the offline document, and no store has an entry for "/app.js";
\* the other fetch event fetched a response and stored it under its key.
C19_Witness ==
  \E i, j \in OpIds :
    /\ IsNav(i) /\ ops[i].pc = "done" /\ ops[i].net = Null
    /\ ops[i].req.url = <<"app.js">>
    /\ IsOfflineDocument(ops[i].out)
    /\ match(caches, <<"app.js">>) = Undefined
    /\ Wrote(j) /\ ops[j].landed
    /\ OwnEntry(j, ops[j].req.url) = ops[j].net
====
